---- MODULE Spec2Model ----
(***************************************************************************)
(* Model of react_extractor/extractor.py: the feature trend evaluator      *)
(* (calculate_feature_differences), the entry selector                     *)
(* (filter_json_by_features and the descending sort of ReACT_Extractor)    *)
(* and the orchestration in main.                                          *)
(*                                                                         *)
(* A Python str is a sequence of one-character strings.  A JSON object is  *)
(* a function from its keys to its values; a missing key is a key outside  *)
(* the DOMAIN.  A DataFrame is a record of its column names and its rows.  *)
(* Cells of the table are integers; a mean is kept as an exact fraction.   *)
(***************************************************************************)
EXTENDS Integers, Sequences, FiniteSets, TLC

VARIABLES
    pc,                 \* position of the program
    args,               \* argparse namespace: [all, month]
    disk,               \* the files the run reads, and whether output/ can be opened
    original_data,      \* main: the loaded parent JSON / data of the filter
    feature_data,       \* main: the loaded DataFrame / df of the evaluator
    all_months,         \* main: sorted(feature_data['month'].unique())
    idx,                \* main: position of the for loop in all_months
    all_results,        \* main: dict month -> result
    month_n,            \* ReACT_Extractor: parameter
    write_output,       \* ReACT_Extractor: parameter
    feature_list,       \* ReACT_Extractor: local / evaluator parameter
    processed_features, \* ReACT_Extractor: local / features of the filter
    filtered_json,      \* ReACT_Extractor: local
    sorted_json,        \* ReACT_Extractor: local
    reacts,             \* main: value returned by the last call
    out_file,           \* content of output/extracted_react.json
    stdout,             \* lines printed
    opened,             \* how many times the output file was opened for writing
    calls               \* months ReACT_Extractor was invoked for, in order

vars == <<pc, args, disk, original_data, feature_data, all_months, idx,
          all_results, month_n, write_output, feature_list, processed_features,
          filtered_json, sorted_json, reacts, out_file, stdout, opened, calls>>

----------------------------------------------------------------------------
(* Strings *)

Whitespace == {" "}

RECURSIVE split(_, _)
\* str.split(sep) for a one-character separator: always at least one piece.
split(s, sep) ==
    IF \A i \in 1..Len(s) : s[i] # sep
    THEN <<s>>
    ELSE LET k == CHOOSE i \in 1..Len(s) :
                      s[i] = sep /\ \A j \in 1..(i - 1) : s[j] # sep
         IN  <<SubSeq(s, 1, k - 1)>> \o split(SubSeq(s, k + 1, Len(s)), sep)

\* str.strip(): drops leading and trailing whitespace, keeps inner whitespace.
strip(s) ==
    LET keep == {i \in 1..Len(s) : s[i] \notin Whitespace}
    IN  IF keep = {} THEN <<>>
        ELSE LET lo == CHOOSE i \in keep : \A j \in keep : i <= j
                 hi == CHOOSE i \in keep : \A j \in keep : j <= i
             IN  SubSeq(s, lo, hi)

Range(s) == {s[i] : i \in 1..Len(s)}

SeqsUpTo(S, n) == UNION {[1..k -> S] : k \in 0..n}

\* dict.get(key, default)
get(entry, key, default) ==
    IF key \in DOMAIN entry THEN entry[key] ELSE default

----------------------------------------------------------------------------
(* Entry selector: filter_json_by_features *)

\* as entry_features, with the tokens left untrimmed
entry_features_untrimmed(entry) ==
    Range(split(get(entry, "Features", <<>>), ","))

\* set(map(str.strip, entry.get("Features", "").split(",")))
entry_features(entry) ==
    {strip(t) : t \in Range(split(get(entry, "Features", <<>>), ","))}

\* any(feature in entry_features for feature in features)
any_feature_in(entry, features) ==
    \E i \in 1..Len(features) : features[i] \in entry_features(entry)

filter_json_by_features(data, features) ==
    SelectSeq(data, LAMBDA entry : any_feature_in(entry, features))

----------------------------------------------------------------------------
(* Feature trend evaluator: calculate_feature_differences *)

month == <<"m", "o", "n", "t", "h">>

RECURSIVE SeqSum(_)
SeqSum(s) == IF s = <<>> THEN 0 ELSE Head(s) + SeqSum(Tail(s))

\* df[name] as the sequence of its cells
Column(df, name) == [i \in 1..Len(df.rows) |-> df.rows[i][name]]

\* Series.mean(): an exact fraction, or NaN for a series without values
mean(col) ==
    IF Len(col) = 0
    THEN [nan |-> TRUE, num |-> 0, den |-> 1]
    ELSE [nan |-> FALSE, num |-> SeqSum(col), den |-> Len(col)]

\* as window_sum, with | in place of & in the row mask
window_sum_or(df, n, feature) ==
    LET rows == SelectSeq(df.rows,
                    LAMBDA r : r[month] >= n - 2 \/ r[month] <= n)
    IN  SeqSum([i \in 1..Len(rows) |-> rows[i][feature]])

\* df[(df['month'] >= month_n-2) & (df['month'] <= month_n)][feature].sum()
window_sum(df, n, feature) ==
    LET rows == SelectSeq(df.rows,
                    LAMBDA r : r[month] >= n - 2 /\ r[month] <= n)
    IN  SeqSum([i \in 1..Len(rows) |-> rows[i][feature]])

\* monthly_feature_values[feature] - avg_feature_values[feature]
difference(sum, avg) ==
    IF avg.nan THEN avg
    ELSE [nan |-> FALSE, num |-> sum * avg.den - avg.num, den |-> avg.den]

\* as leq_zero, with diff < 0
lt_zero(diff) == ~diff.nan /\ diff.num < 0

\* diff <= 0; no comparison with NaN holds
leq_zero(diff) == ~diff.nan /\ diff.num <= 0

\* keys of a dict filled in the order of the list: first occurrences
RECURSIVE dict_keys(_)
dict_keys(list) ==
    IF list = <<>> THEN <<>>
    ELSE LET rest == dict_keys(SubSeq(list, 1, Len(list) - 1))
             x    == list[Len(list)]
         IN  IF x \in Range(rest) THEN rest ELSE Append(rest, x)

\* The returned list, or the KeyError of a column lookup.
calculate_feature_differences(df, n, list) ==
    IF \E i \in 1..Len(list) : list[i] \notin df.columns
    THEN [raised |-> "KeyError", value |-> <<>>]
    ELSE IF list # <<>> /\ month \notin df.columns
    THEN [raised |-> "KeyError", value |-> <<>>]
    ELSE [raised |-> "",
          value  |-> SelectSeq(dict_keys(list),
                        LAMBDA f : leq_zero(difference(window_sum(df, n, f),
                                                       mean(Column(df, f)))))]

----------------------------------------------------------------------------
(* sorted(filtered_json, key=lambda x: x.get("Importance", 0), reverse=True) *)

Importance(x) == get(x, "Importance", 0)

\* as insert_desc, with x ahead of the elements of equal key
insert_desc_unstable(s, x) ==
    LET ahead == {i \in 1..Len(s) : get(s[i], "Importance", 0)
                                        > get(x, "Importance", 0)}
        k     == IF ahead = {} THEN 0
                 ELSE CHOOSE i \in ahead : \A j \in ahead : j <= i
    IN  SubSeq(s, 1, k) \o <<x>> \o SubSeq(s, k + 1, Len(s))

\* x goes behind every element whose key is not smaller (stable, descending)
insert_desc(s, x) ==
    LET ahead == {i \in 1..Len(s) : Importance(s[i]) >= Importance(x)}
        k     == IF ahead = {} THEN 0
                 ELSE CHOOSE i \in ahead : \A j \in ahead : j <= i
    IN  SubSeq(s, 1, k) \o <<x>> \o SubSeq(s, k + 1, Len(s))

RECURSIVE sorted_no_reverse(_)
\* as sorted_desc, without reverse=True
sorted_no_reverse(s) ==
    IF s = <<>> THEN <<>>
    ELSE LET rest == sorted_no_reverse(SubSeq(s, 1, Len(s) - 1))
             x    == s[Len(s)]
             ahead == {i \in 1..Len(rest) : get(rest[i], "Importance", 0)
                                                <= get(x, "Importance", 0)}
             k     == IF ahead = {} THEN 0
                      ELSE CHOOSE i \in ahead : \A j \in ahead : j <= i
         IN  SubSeq(rest, 1, k) \o <<x>> \o SubSeq(rest, k + 1, Len(rest))

RECURSIVE sorted_desc(_)
sorted_desc(s) ==
    IF s = <<>> THEN <<>>
    ELSE insert_desc(sorted_desc(SubSeq(s, 1, Len(s) - 1)), s[Len(s)])

----------------------------------------------------------------------------
(* ReACT_Extractor *)

s_avg_clustering_coef ==
    <<"s", "_", "a", "v", "g", "_", "c", "l", "u", "s", "t", "e", "r",
      "i", "n", "g", "_", "c", "o", "e", "f">>
t_num_dev_nodes ==
    <<"t", "_", "n", "u", "m", "_", "d", "e", "v", "_", "n", "o", "d",
      "e", "s">>
t_num_dev_per_file ==
    <<"t", "_", "n", "u", "m", "_", "d", "e", "v", "_", "p", "e", "r",
      "_", "f", "i", "l", "e">>
t_graph_density ==
    <<"t", "_", "g", "r", "a", "p", "h", "_", "d", "e", "n", "s", "i",
      "t", "y">>
st_num_dev ==
    <<"s", "t", "_", "n", "u", "m", "_", "d", "e", "v">>
t_net_overlap ==
    <<"t", "_", "n", "e", "t", "_", "o", "v", "e", "r", "l", "a", "p">>

\* the feature_list local of ReACT_Extractor
tracked_features ==
    <<s_avg_clustering_coef, t_num_dev_nodes, t_num_dev_per_file,
      t_graph_density, st_num_dev, t_net_overlap>>

\* The value ReACT_Extractor returns for one call, or the error it raises.
ReACT_Extractor(data, df, n) ==
    LET r == calculate_feature_differences(df, n, tracked_features)
    IN  IF r.raised # "" THEN r
        ELSE [raised |-> "",
              value  |-> sorted_desc(filter_json_by_features(data, r.value))]

\* as Evaluate, with the triggered features kept from one call to the next
Evaluate_carry ==
    /\ pc = "evaluate"
    /\ feature_list' = tracked_features
    /\ LET r == calculate_feature_differences(feature_data, month_n,
                                              tracked_features)
       IN  IF r.raised # ""
           THEN pc' = "failed" /\ UNCHANGED processed_features
           ELSE pc' = "filter" /\ processed_features' = processed_features \o r.value
    /\ UNCHANGED <<args, disk, original_data, feature_data, all_months, idx,
                   all_results, month_n, write_output, filtered_json,
                   sorted_json, reacts, out_file, stdout, opened, calls>>

\* as Evaluate, with the lookup error swallowed
Evaluate_swallow ==
    /\ pc = "evaluate"
    /\ feature_list' = tracked_features
    /\ LET r == calculate_feature_differences(feature_data, month_n,
                                              tracked_features)
       IN  pc' = "filter" /\ processed_features' = r.value
    /\ UNCHANGED <<args, disk, original_data, feature_data, all_months, idx,
                   all_results, month_n, write_output, filtered_json,
                   sorted_json, reacts, out_file, stdout, opened, calls>>

\* line 58
Evaluate ==
    /\ pc = "evaluate"
    /\ feature_list' = tracked_features
    /\ LET r == calculate_feature_differences(feature_data, month_n,
                                              tracked_features)
       IN  IF r.raised # ""
           THEN pc' = "failed" /\ UNCHANGED processed_features
           ELSE pc' = "filter" /\ processed_features' = r.value
    /\ UNCHANGED <<args, disk, original_data, feature_data, all_months, idx,
                   all_results, month_n, write_output, filtered_json,
                   sorted_json, reacts, out_file, stdout, opened, calls>>

\* line 59
Filter ==
    /\ pc = "filter"
    /\ filtered_json' = filter_json_by_features(original_data, processed_features)
    /\ pc' = "sort"
    /\ UNCHANGED <<args, disk, original_data, feature_data, all_months, idx,
                   all_results, month_n, write_output, feature_list,
                   processed_features, sorted_json, reacts, out_file, stdout,
                   opened, calls>>

\* line 60
Sort ==
    /\ pc = "sort"
    /\ sorted_json' = sorted_desc(filtered_json)
    /\ pc' = "write"
    /\ UNCHANGED <<args, disk, original_data, feature_data, all_months, idx,
                   all_results, month_n, write_output, feature_list,
                   processed_features, filtered_json, reacts, out_file, stdout,
                   opened, calls>>

\* lines 62-67: the optional write, then the return to the caller
WriteOutput ==
    /\ pc = "write"
    /\ IF write_output /\ ~disk.output_dir
       THEN \* open() raises: nothing is opened, printed or returned
            /\ pc' = "failed"
            /\ UNCHANGED <<out_file, stdout, opened, reacts>>
       ELSE /\ pc' = "returned"
            /\ reacts' = sorted_json
            /\ IF write_output
               THEN /\ out_file' = [written |-> TRUE, content |-> sorted_json]
                    /\ opened' = opened + 1
                    /\ stdout' = Append(stdout, [text |-> "saved", json |-> <<>>])
               ELSE UNCHANGED <<out_file, stdout, opened>>
    /\ UNCHANGED <<args, disk, original_data, feature_data, all_months, idx,
                   all_results, month_n, write_output, feature_list,
                   processed_features, filtered_json, sorted_json, calls>>

----------------------------------------------------------------------------
(* main *)

\* feature_data['month'].unique(): the distinct cells, as numpy scalars
unique_months(df) ==
    {[dtype |-> "int64", item |-> df.rows[i][month]] : i \in 1..Len(df.rows)}

RECURSIVE sorted_asc(_)
\* sorted() of a set of numpy scalars
sorted_asc(S) ==
    IF S = {} THEN <<>>
    ELSE LET lo == CHOOSE x \in S : \A y \in S : x.item <= y.item
         IN  <<lo>> \o sorted_asc(S \ {lo})

\* int(m) of a numpy scalar: the plain integer
int(m) == m.item

\* dict with d[k] = v set
dict_set(d, k, v) ==
    [x \in DOMAIN d \cup {k} |-> IF x = k THEN v ELSE d[x]]

\* lines 93-94
LoadJson ==
    /\ pc = "load_json"
    /\ IF disk.react_set.exists
       THEN original_data' = disk.react_set.content /\ pc' = "load_csv"
       ELSE UNCHANGED original_data /\ pc' = "failed"
    /\ UNCHANGED <<args, disk, feature_data, all_months, idx, all_results,
                   month_n, write_output, feature_list, processed_features,
                   filtered_json, sorted_json, reacts, out_file, stdout,
                   opened, calls>>

\* line 97
LoadCsv ==
    /\ pc = "load_csv"
    /\ IF disk.csv.exists
       THEN feature_data' = disk.csv.content /\ pc' = "branch"
       ELSE UNCHANGED feature_data /\ pc' = "failed"
    /\ UNCHANGED <<args, disk, original_data, all_months, idx, all_results,
                   month_n, write_output, feature_list, processed_features,
                   filtered_json, sorted_json, reacts, out_file, stdout,
                   opened, calls>>

\* lines 99-102: all-months mode sets up the loop
StartAll ==
    /\ pc = "branch"
    /\ args.all
    /\ IF month \in feature_data.columns
       THEN /\ all_months' = sorted_asc(unique_months(feature_data))
            /\ all_results' = <<>>
            /\ idx' = 1
            /\ pc' = "loop"
       ELSE /\ pc' = "failed"
            /\ UNCHANGED <<all_months, all_results, idx>>
    /\ UNCHANGED <<args, disk, original_data, feature_data, month_n,
                   write_output, feature_list, processed_features,
                   filtered_json, sorted_json, reacts, out_file, stdout,
                   opened, calls>>

\* as LoopCall, without write_output=False
LoopCall_writes ==
    /\ pc = "loop"
    /\ idx <= Len(all_months)
    /\ month_n' = int(all_months[idx])
    /\ write_output' = TRUE
    /\ calls' = Append(calls, int(all_months[idx]))
    /\ pc' = "evaluate"
    /\ UNCHANGED <<args, disk, original_data, feature_data, all_months, idx,
                   all_results, feature_list, processed_features,
                   filtered_json, sorted_json, reacts, out_file, stdout, opened>>

\* as LoopCall, iterating positions instead of months
LoopCall_position ==
    /\ pc = "loop"
    /\ idx <= Len(all_months)
    /\ month_n' = idx - 1
    /\ write_output' = FALSE
    /\ calls' = Append(calls, idx - 1)
    /\ pc' = "evaluate"
    /\ UNCHANGED <<args, disk, original_data, feature_data, all_months, idx,
                   all_results, feature_list, processed_features,
                   filtered_json, sorted_json, reacts, out_file, stdout, opened>>

\* lines 104-111: the next month of the loop calls ReACT_Extractor
LoopCall ==
    /\ pc = "loop"
    /\ idx <= Len(all_months)
    /\ month_n' = int(all_months[idx])
    /\ write_output' = FALSE
    /\ calls' = Append(calls, int(all_months[idx]))
    /\ pc' = "evaluate"
    /\ UNCHANGED <<args, disk, original_data, feature_data, all_months, idx,
                   all_results, feature_list, processed_features,
                   filtered_json, sorted_json, reacts, out_file, stdout, opened>>

\* as StoreResult, keyed by the position in all_months
StoreResult_position ==
    /\ pc = "returned"
    /\ args.all
    /\ all_results' = dict_set(all_results, idx, reacts)
    /\ idx' = idx + 1
    /\ pc' = "loop"
    /\ UNCHANGED <<args, disk, original_data, feature_data, all_months,
                   month_n, write_output, feature_list, processed_features,
                   filtered_json, sorted_json, reacts, out_file, stdout,
                   opened, calls>>

\* line 112: the result of the call is stored under int(m)
StoreResult ==
    /\ pc = "returned"
    /\ args.all
    /\ all_results' = dict_set(all_results, int(all_months[idx]), reacts)
    /\ idx' = idx + 1
    /\ pc' = "loop"
    /\ UNCHANGED <<args, disk, original_data, feature_data, all_months,
                   month_n, write_output, feature_list, processed_features,
                   filtered_json, sorted_json, reacts, out_file, stdout,
                   opened, calls>>

\* lines 115-117: after the loop the mapping is written
WriteAll ==
    /\ pc = "loop"
    /\ idx > Len(all_months)
    /\ IF disk.output_dir
       THEN /\ out_file' = [written |-> TRUE, content |-> all_results]
            /\ opened' = opened + 1
            /\ stdout' = Append(stdout, [text |-> "saved all", json |-> <<>>])
            /\ pc' = "done"
       ELSE /\ pc' = "failed"
            /\ UNCHANGED <<out_file, opened, stdout>>
    /\ UNCHANGED <<args, disk, original_data, feature_data, all_months, idx,
                   all_results, month_n, write_output, feature_list,
                   processed_features, filtered_json, sorted_json, reacts,
                   calls>>

\* line 120: single-month mode calls ReACT_Extractor with write_output=True
SingleCall ==
    /\ pc = "branch"
    /\ ~args.all
    /\ month_n' = args.month
    /\ write_output' = TRUE
    /\ calls' = Append(calls, args.month)
    /\ pc' = "evaluate"
    /\ UNCHANGED <<args, disk, original_data, feature_data, all_months, idx,
                   all_results, feature_list, processed_features,
                   filtered_json, sorted_json, reacts, out_file, stdout, opened>>

\* line 122
PrintResult ==
    /\ pc = "returned"
    /\ ~args.all
    /\ stdout' = Append(stdout, [text |-> "dumps", json |-> reacts])
    /\ pc' = "done"
    /\ UNCHANGED <<args, disk, original_data, feature_data, all_months, idx,
                   all_results, month_n, write_output, feature_list,
                   processed_features, filtered_json, sorted_json, reacts,
                   out_file, opened, calls>>

----------------------------------------------------------------------------
(* Inputs of a run of main *)

MaxMonth == 3
MaxRows == 2

\* "<a>, <b>"
Tags(a, b) == a \o <<",", " ">> \o b

\* entries of the reference collection
E_density == [Title |-> 1, Features |-> t_graph_density, Importance |-> 1]
E_two     == [Title |-> 2, Features |-> Tags(st_num_dev, t_net_overlap),
              Importance |-> 2]
E_plain   == [Title |-> 3, Features |-> Tags(t_net_overlap, t_graph_density)]
E_untagged == [Title |-> 4, Importance |-> 3]
MainData ==
    {<<>>, <<E_density, E_two>>, <<E_plain, E_density, E_untagged, E_two>>}

\* rows of the table: every tracked column 1, or t_graph_density -1
RowValues(low) ==
    [c \in Range(tracked_features) |->
        IF c = t_graph_density /\ low THEN -1 ELSE 1]
MainRow(cols, m, low) ==
    [c \in cols |-> IF c = month THEN m ELSE RowValues(low)[c]]
AllColumns == Range(tracked_features) \cup {month}
MainColumns ==
    {AllColumns, AllColumns \ {month}, AllColumns \ {t_net_overlap}}
MainRows(cols) == {MainRow(cols, m, low) : m \in 1..MaxMonth, low \in BOOLEAN}
MainTables ==
    UNION {{[columns |-> cols, rows |-> rs] :
                rs \in SeqsUpTo(MainRows(cols), MaxRows)} : cols \in MainColumns}

Missing == [exists |-> FALSE, content |-> <<>>]
File(c) == [exists |-> TRUE, content |-> c]

Init ==
    /\ pc = "load_json"
    /\ args \in [all : BOOLEAN, month : {2, 9}]
    /\ disk \in [react_set  : {Missing} \cup {File(d) : d \in MainData},
                 csv        : {Missing} \cup {File(t) : t \in MainTables},
                 output_dir : BOOLEAN]
    /\ original_data = <<>>
    /\ feature_data = <<>>
    /\ all_months = <<>>
    /\ idx = 0
    /\ all_results = <<>>
    /\ month_n = 0
    /\ write_output = FALSE
    /\ feature_list = <<>>
    /\ processed_features = <<>>
    /\ filtered_json = <<>>
    /\ sorted_json = <<>>
    /\ reacts = <<>>
    /\ out_file = [written |-> FALSE, content |-> <<>>]
    /\ stdout = <<>>
    /\ opened = 0
    /\ calls = <<>>

Next ==
    \/ LoadJson \/ LoadCsv
    \/ StartAll \/ LoopCall \/ StoreResult \/ WriteAll
    \/ SingleCall \/ PrintResult
    \/ Evaluate \/ Filter \/ Sort \/ WriteOutput

Spec == Init /\ [][Next]_vars

----------------------------------------------------------------------------
(* Inputs of ReACT_Extractor on its own *)

MaxEntries == 3

ExtractorKinds ==
    {[Importance |-> 1]}
    \cup {[Features |-> f] :
              f \in {t_graph_density, Tags(st_num_dev, t_net_overlap)}}
    \cup {[Features |-> f, Importance |-> v] :
              f \in {t_graph_density, Tags(st_num_dev, t_net_overlap)},
              v \in {-1, 0, 1}}
\* the Title of an entry is its position in the collection
ExtractorData ==
    {[i \in 1..Len(ks) |-> ks[i] @@ [Title |-> i]] :
         ks \in SeqsUpTo(ExtractorKinds, MaxEntries)}
ExtractorTables ==
    {[columns |-> AllColumns,
      rows |-> <<MainRow(AllColumns, 9, FALSE)>>],
     [columns |-> AllColumns,
      rows |-> <<MainRow(AllColumns, 9, TRUE), MainRow(AllColumns, 8, FALSE)>>],
     [columns |-> AllColumns,
      rows |-> <<MainRow(AllColumns, 9, FALSE), MainRow(AllColumns, 9, FALSE)>>]}

InitExtractor ==
    /\ pc = "evaluate"
    /\ original_data \in ExtractorData
    /\ feature_data \in ExtractorTables
    /\ month_n = 9
    /\ write_output \in BOOLEAN
    /\ disk = [react_set |-> Missing, csv |-> Missing, output_dir |-> TRUE]
    /\ args = [all |-> FALSE, month |-> 9]
    /\ all_months = <<>>
    /\ idx = 0
    /\ all_results = <<>>
    /\ feature_list = <<>>
    /\ processed_features = <<>>
    /\ filtered_json = <<>>
    /\ sorted_json = <<>>
    /\ reacts = <<>>
    /\ out_file = [written |-> FALSE, content |-> <<>>]
    /\ stdout = <<>>
    /\ opened = 0
    /\ calls = <<>>

NextExtractor == Evaluate \/ Filter \/ Sort \/ WriteOutput

SpecExtractor == InitExtractor /\ [][NextExtractor]_vars

----------------------------------------------------------------------------
(* Inputs of the selector on its own *)

MaxStrLen == 3
FilterMaxEntries == 1
MaxFeatures == 2

FilterChars == {"a", ",", " "}
FilterStrings == UNION {[1..n -> FilterChars] : n \in 0..MaxStrLen}
FilterEntries ==
    {<<>>, [Importance |-> 1]} \cup {[Features |-> s] : s \in FilterStrings}
FilterTokens == {<<>>, <<"a">>, <<"a", "a">>}

InitFilter ==
    /\ pc = "filter_call"
    /\ original_data \in SeqsUpTo(FilterEntries, FilterMaxEntries)
    /\ processed_features \in SeqsUpTo(FilterTokens, MaxFeatures)
    /\ filtered_json = <<>>
    /\ args = [all |-> FALSE, month |-> 0]
    /\ disk = [react_set |-> <<>>, csv |-> <<>>, output_dir |-> TRUE]
    /\ feature_data = <<>>
    /\ all_months = <<>>
    /\ idx = 0
    /\ all_results = <<>>
    /\ month_n = 0
    /\ write_output = FALSE
    /\ feature_list = <<>>
    /\ sorted_json = <<>>
    /\ reacts = <<>>
    /\ out_file = [written |-> FALSE, content |-> <<>>]
    /\ stdout = <<>>
    /\ opened = 0
    /\ calls = <<>>

\* filtered_data = filter_json_by_features(data, features)
FilterCall ==
    /\ pc = "filter_call"
    /\ filtered_json' = filter_json_by_features(original_data, processed_features)
    /\ pc' = "filter_done"
    /\ UNCHANGED <<args, disk, original_data, feature_data, all_months, idx,
                   all_results, month_n, write_output, feature_list,
                   processed_features, sorted_json, reacts, out_file, stdout,
                   opened, calls>>

SpecFilter == InitFilter /\ [][FilterCall]_vars

----------------------------------------------------------------------------
(* Inputs of the evaluator on its own *)

EvalMaxRows == 2
EvalMaxMonth == 3

fa == <<"a">>
fb == <<"b">>
EvalCells(col) ==
    IF col = month THEN 1..EvalMaxMonth
    ELSE IF col = fa THEN {-1, 0, 2}
    ELSE {-1, 1}
EvalColumns == {{month, fa, fb}, {fa, fb}, {month, fa}}
EvalRows(cols) == {r \in [cols -> -1..(EvalMaxMonth + 2)] :
                       \A c \in cols : r[c] \in EvalCells(c)}
EvalTables ==
    UNION {{[columns |-> cols, rows |-> rs] :
                rs \in SeqsUpTo(EvalRows(cols), EvalMaxRows)} : cols \in EvalColumns}
EvalLists == {<<>>, <<fa>>, <<fa, fb>>, <<fb, fb, fa>>}

InitEval ==
    /\ pc = "eval_call"
    /\ feature_data \in EvalTables
    /\ month_n \in 0..(EvalMaxMonth + 3)
    /\ feature_list \in EvalLists
    /\ processed_features = <<>>
    /\ original_data = <<>>
    /\ filtered_json = <<>>
    /\ args = [all |-> FALSE, month |-> 0]
    /\ disk = [react_set |-> <<>>, csv |-> <<>>, output_dir |-> TRUE]
    /\ all_months = <<>>
    /\ idx = 0
    /\ all_results = <<>>
    /\ write_output = FALSE
    /\ sorted_json = <<>>
    /\ reacts = <<>>
    /\ out_file = [written |-> FALSE, content |-> <<>>]
    /\ stdout = <<>>
    /\ opened = 0
    /\ calls = <<>>

\* calculate_feature_differences(df, month_n, feature_list), returning or raising
EvalCall ==
    /\ pc = "eval_call"
    /\ LET r == calculate_feature_differences(feature_data, month_n, feature_list)
       IN  /\ processed_features' = r.value
           /\ pc' = IF r.raised = "" THEN "eval_done" ELSE "eval_raised"
    /\ UNCHANGED <<args, disk, original_data, feature_data, all_months, idx,
                   all_results, month_n, write_output, feature_list,
                   filtered_json, sorted_json, reacts, out_file, stdout,
                   opened, calls>>

SpecEval == InitEval /\ [][EvalCall]_vars

----------------------------------------------------------------------------
(* Properties of filter_json_by_features, under SpecFilter *)

Spaces(n) == [i \in 1..n |-> " "]

\* t is p without its leading and trailing whitespace
IsTrimOf(t, p) ==
    /\ Len(t) <= Len(p)
    /\ t # <<>> => t[1] # " " /\ t[Len(t)] # " "
    /\ \E l \in 0..(Len(p) - Len(t)) :
           p = Spaces(l) \o t \o Spaces(Len(p) - Len(t) - l)

\* t is the trimmed form of one of the comma-separated pieces of s
IsTokenOf(t, s) ==
    \E i \in 1..(Len(s) + 1) : \E j \in (i - 1)..Len(s) :
        /\ i = 1 \/ s[i - 1] = ","
        /\ j = Len(s) \/ s[j + 1] = ","
        /\ \A k \in i..j : s[k] # ","
        /\ IsTrimOf(t, SubSeq(s, i, j))

HasTriggeredToken(entry, triggered) ==
    /\ "Features" \in DOMAIN entry
    /\ \E t \in triggered : IsTokenOf(t, entry["Features"])

\* the elements of s at the positions in I, in the order of s
SubseqAt(s, I) ==
    LET f[k \in 0..Len(s)] ==
            IF k = 0 THEN <<>>
            ELSE IF k \in I THEN Append(f[k - 1], s[k]) ELSE f[k - 1]
    IN  f[Len(s)]

\* C1: filter_json_by_features keeps an entry if and only if one of the
\* whitespace-trimmed, comma-separated tokens of its Features string is a
\* member of the triggered set, and never keeps an entry without a Features key.
C1_FilterExact ==
    pc = "filter_done" =>
        filtered_json =
            SubseqAt(original_data,
                     {i \in 1..Len(original_data) :
                          HasTriggeredToken(original_data[i],
                                            Range(processed_features))})

\* The part of C1 the code satisfies: entries that carry a Features string
\* are kept exactly on token membership; an entry without the key is kept
\* exactly when the empty string is among the features.
C1_FilterExactWithKey ==
    pc = "filter_done" =>
        filtered_json =
            SubseqAt(original_data,
                     {i \in 1..Len(original_data) :
                          \/ HasTriggeredToken(original_data[i],
                                               Range(processed_features))
                          \/ /\ "Features" \notin DOMAIN original_data[i]
                             /\ <<>> \in Range(processed_features)})

----------------------------------------------------------------------------
(* Properties of calculate_feature_differences, under SpecEval *)

RECURSIVE SumAt(_, _, _)
\* sum of column f over the rows at the positions in I
SumAt(rows, f, I) ==
    IF I = {} THEN 0
    ELSE LET i == CHOOSE k \in I : TRUE
         IN  rows[i][f] + SumAt(rows, f, I \ {i})

AllRows == 1..Len(feature_data.rows)
WindowRows ==
    {i \in AllRows : /\ month \in feature_data.columns
                     /\ month_n - 2 <= feature_data.rows[i][month]
                     /\ feature_data.rows[i][month] <= month_n}

\* window sum minus mean over all rows is <= 0, cleared of the denominator;
\* a table without rows has no mean and nothing compares with it
NonPositiveDifference(f) ==
    /\ AllRows # {}
    /\ Cardinality(AllRows) * SumAt(feature_data.rows, f, WindowRows)
           <= SumAt(feature_data.rows, f, AllRows)

\* C2: calculate_feature_differences returns exactly the names of the feature
\* list whose sum over the rows with n-2 <= month <= n minus the mean over all
\* rows is <= 0 (a difference of 0 triggers), and no name outside the list.
C2_TriggeredExact ==
    pc = "eval_done" =>
        /\ Range(processed_features) =
               {f \in Range(feature_list) : NonPositiveDifference(f)}
        /\ Range(processed_features) \subseteq Range(feature_list)

\* a difference of exactly 0 with a row on the lower edge of the window,
\* one feature returned and one not
C2_Witness ==
    /\ pc = "eval_done"
    /\ \E i \in WindowRows : feature_data.rows[i][month] = month_n - 2
    /\ \E f \in Range(processed_features) :
           /\ SumAt(feature_data.rows, f, WindowRows) # 0
           /\ Cardinality(AllRows) * SumAt(feature_data.rows, f, WindowRows)
                  = SumAt(feature_data.rows, f, AllRows)
    /\ \E g \in Range(feature_list) : g \notin Range(processed_features)

\* C9 as stated: with no row in [n-2, n] every feature of the list is returned.
C9_EmptyWindowTriggersAll ==
    (pc = "eval_done" /\ WindowRows = {}) =>
        Range(processed_features) = Range(feature_list)

\* C9: with no row in [n-2, n] there is no special case: the window sum is
\* zero and a feature is returned exactly when its mean over all rows exists
\* and is >= 0 (0 - mean <= 0).
C9_EmptyWindowTriggersNonNegativeMean ==
    (pc = "eval_done" /\ WindowRows = {}) =>
        \A f \in Range(feature_list) :
            f \in Range(processed_features) <=>
                (AllRows # {} /\ SumAt(feature_data.rows, f, AllRows) >= 0)

\* an empty window over a table with rows: one feature returned, one not
C9_Witness ==
    /\ pc = "eval_done"
    /\ WindowRows = {}
    /\ AllRows # {}
    /\ \E f \in Range(feature_list) : f \in Range(processed_features)
    /\ \E g \in Range(feature_list) : g \notin Range(processed_features)

----------------------------------------------------------------------------
(* Properties of ReACT_Extractor, under SpecExtractor *)

ImportanceOf(e) == IF "Importance" \in DOMAIN e THEN e["Importance"] ELSE 0

\* C3: in the sequence ReACT_Extractor returns, an entry that appears before
\* another has an Importance at least as large, a missing Importance being 0.
C3_SortedDescending ==
    pc = "returned" =>
        \A i \in 1..Len(reacts) : \A j \in 1..Len(reacts) :
            i < j => ImportanceOf(reacts[i]) >= ImportanceOf(reacts[j])

\* three entries returned, the one without Importance between a positive and
\* a negative one
C3_Witness ==
    /\ pc = "returned"
    /\ Len(reacts) = 3
    /\ ImportanceOf(reacts[1]) > 0
    /\ "Importance" \notin DOMAIN reacts[2]
    /\ ImportanceOf(reacts[3]) < 0
    /\ reacts[3]["Title"] < reacts[1]["Title"]

\* C4: kept entries of equal Importance appear in the result in the relative
\* order they have in the input collection.
C4_StableOnTies ==
    pc = "returned" =>
        \A i \in 1..Len(reacts) : \A j \in 1..Len(reacts) :
            (i < j /\ ImportanceOf(reacts[i]) = ImportanceOf(reacts[j]))
                => reacts[i]["Title"] < reacts[j]["Title"]

\* a tie between an entry without Importance and one with Importance 0,
\* behind an entry that came later in the input
C4_Witness ==
    /\ pc = "returned"
    /\ Len(reacts) = 3
    /\ Len(original_data) = 3
    /\ ImportanceOf(reacts[1]) > 0
    /\ reacts[1]["Title"] = 3
    /\ ImportanceOf(reacts[2]) = 0
    /\ ImportanceOf(reacts[3]) = 0
    /\ ("Importance" \in DOMAIN reacts[2]) # ("Importance" \in DOMAIN reacts[3])

----------------------------------------------------------------------------
(* Properties of main, under Spec *)

CsvRows == disk.csv.content.rows
CsvColumns == disk.csv.content.columns
\* the distinct values of the month column of the CSV
DistinctMonths == {CsvRows[i][month] : i \in 1..Len(CsvRows)}
InCall == pc \in {"evaluate", "filter", "sort", "write", "returned"}

\* C5: in all-months mode, whatever --month is, the keys of the output
\* mapping are exactly the distinct values of the month column, as plain
\* integers.
C5_KeysAreDistinctMonths ==
    /\ (args.all /\ pc = "done") =>
           /\ out_file.written
           /\ DOMAIN out_file.content = DistinctMonths
           /\ DOMAIN out_file.content \subseteq Int
    /\ (args.all /\ (pc = "loop" \/ InCall)) =>
           DOMAIN all_results \subseteq DistinctMonths

\* two distinct months that are not 1, 2, with a --month that is no key
C5_Witness ==
    /\ args.all
    /\ pc = "done"
    /\ Cardinality(DOMAIN out_file.content) >= 2
    /\ DOMAIN out_file.content # 1..Cardinality(DOMAIN out_file.content)
    /\ args.month \notin DOMAIN out_file.content

\* C6: the result for a month depends on the reference collection, the table
\* and the month only: every result stored in all-months mode, and the result
\* of a single-month run, equals that of a standalone call for the month,
\* whatever was processed before it.
C6_ResultIsFunctionOfInputs ==
    /\ args.all =>
           \A m \in DOMAIN all_results :
               LET r == ReACT_Extractor(disk.react_set.content,
                                        disk.csv.content, m)
               IN  r.raised = "" /\ all_results[m] = r.value
    /\ pc \in {"returned", "done"} /\ ~args.all =>
           reacts = ReACT_Extractor(disk.react_set.content,
                                    disk.csv.content, args.month).value

\* a later month whose result is smaller than that of the month before it
C6_Witness ==
    /\ args.all
    /\ pc = "done"
    /\ \E m \in DOMAIN all_results : \E k \in DOMAIN all_results :
           /\ m < k
           /\ Len(all_results[k]) < Len(all_results[m])
           /\ all_results[k] # <<>>

Produced == opened > 0 \/ stdout # <<>> \/ out_file.written

\* C7: a run that fails has not opened or written the output file and has
\* printed nothing; output exists only in runs whose loads succeeded and whose
\* evaluation, filtering and sorting completed for every month called.
C7_AllOrNothing ==
    /\ pc = "failed" => ~Produced
    /\ Produced =>
           /\ disk.react_set.exists /\ disk.csv.exists
           /\ month \in CsvColumns
           /\ calls # <<>> => AllColumns \subseteq CsvColumns
           /\ IF args.all
              THEN /\ pc = "done"
                   /\ Range(calls) = DistinctMonths
                   /\ DOMAIN all_results = Range(calls)
              ELSE /\ pc \in {"returned", "done"}
                   /\ calls = <<args.month>>

\* all-months mode failing on a missing feature column, after both loads
C7_Witness ==
    /\ pc = "failed"
    /\ args.all
    /\ disk.output_dir
    /\ calls # <<>>
    /\ t_net_overlap \notin feature_data.columns

\* C8: in all-months mode the months are processed in ascending order, no
\* call writes the file (write_output is False), and the file is written
\* exactly once, after the last month, with the complete mapping.
C8_AscendingThenOneWrite ==
    args.all =>
        /\ \A i \in 1..Len(calls) : \A j \in 1..Len(calls) :
               i < j => calls[i] < calls[j]
        /\ InCall => ~write_output
        /\ (InCall \/ pc = "loop") => (opened = 0 /\ ~out_file.written)
        /\ opened <= 1
        /\ opened = 1 =>
               /\ pc = "done"
               /\ Range(calls) = DistinctMonths
               /\ out_file.content = all_results
               /\ DOMAIN all_results = DistinctMonths
        /\ pc = "done" => opened = 1

\* two months written, the later one first in the CSV
C8_Witness ==
    /\ args.all
    /\ pc = "done"
    /\ opened = 1
    /\ Len(calls) = 2
    /\ CsvRows[1][month] > CsvRows[2][month]

\* C10: in all-months mode the window of every call holds a row, the one of
\* the month itself; an empty window arises in single-month mode only.
C10_WindowNeverEmptyInAllMode ==
    /\ (args.all /\ InCall) =>
           \E i \in 1..Len(feature_data.rows) :
               /\ feature_data.rows[i][month] = month_n
               /\ month_n - 2 <= feature_data.rows[i][month]
               /\ feature_data.rows[i][month] <= month_n
    /\ (InCall /\ month \in feature_data.columns
          /\ ~\E i \in 1..Len(feature_data.rows) :
                 /\ month_n - 2 <= feature_data.rows[i][month]
                 /\ feature_data.rows[i][month] <= month_n)
       => ~args.all

\* a call of all-months mode with a row of the table outside its window
C10_Witness ==
    /\ args.all
    /\ pc = "filter"
    /\ \E i \in 1..Len(feature_data.rows) :
           feature_data.rows[i][month] > month_n

====
